---- MODULE Spec2Model ----
(***************************************************************************)
(* Order-book mirroring pipeline of the trading terminal client:           *)
(*   - useServerBooksSocket (frontend/src/hooks/useBookSocket.ts): the     *)
(*     desired-asset diff, the books WebSocket and its reconnect backoff,  *)
(*     the batch-apply timer;                                              *)
(*   - bookWs.worker (unnamed/part_000): fast-reject, parse, per-asset     *)
(*     coalescing buffer and flush timer;                                  *)
(*   - parseBookState (frontend/src/lib/bookPayload.ts);                   *)
(*   - useBookStore (tail of frontend/src/components/OrderBookWidget.tsx): *)
(*     books, status, frame and their bulk operations.                     *)
(* One action per event-loop task: a render with its effects, a socket     *)
(* event, a timer firing, a message delivered to the worker or back.       *)
(***************************************************************************)
EXTENDS Integers, Sequences, FiniteSets, TLC

\* ------------------------------------------------------------------ bounds

\* Number of valid snapshots in the runs of the ingestion path.
MaxVer == 3
\* Capacity of each postMessage queue (page -> worker, worker -> page).
MaxChan == 1
\* Number of valid snapshots in the runs of the whole pipeline.
MaxLive == 2
\* Number of consecutive connection failures in the runs of the whole pipeline.
MaxFailures == 1
\* Number of consecutive connection failures in the runs of the transport alone.
MaxAttempts == 5

\* Length of the bids array of the payloads given to the validator.
MaxLevels == 2

\* ------------------------------------------------------- program constants

RECONNECT_BASE_MS == 500
RECONNECT_MAX_MS == 5000
FRAME_MODULUS == 1000000

\* Math.floor(Math.random() * 200) ranges over 0..199; the extremes are sampled.
JitterSamples == {0, 199}

\* Codes of a close event: 1000 is a normal closure, 1006 a connection lost
\* without a close frame.
CloseCodes == {1000, 1006}

\* Asset ids a widget can carry; the diff drops the empty id.
Assets == {"A", "B"}
EmptyId == ""
WidgetIds == Assets \cup {EmptyId}

\* An object with no own keys ({} in the source); also stands for a null
\* pendingUpdatesRef, which the source never lets be a non-null empty object.
EmptyMap == [a \in {} |-> 0]

Min(a, b) == IF a < b THEN a ELSE b

VARIABLES
    widgets,    \* asset ids of the widget list of the latest render
    refs,       \* the hook's refs and the `active` flag of the live effect
    store,      \* useBookStore state: books, status, frame
    wk,         \* worker globals: pending, flushTimer
    toWorker,   \* frames posted to the worker, not yet handled
    toMain,     \* batch messages posted by the worker, not yet handled
    timers,     \* outstanding browser timers by kind
    server,     \* the peer: assets subscribed on the connection, next msg_count
    hist,       \* history variables used to state the properties
    last,       \* what the latest task did: messages sent, notifications, ...
    probe       \* a call of the validator on its own: payload, result

vars ==
    <<widgets, refs, store, wk, toWorker, toMain, timers, server, hist, last, probe>>

\* ------------------------------------------------------------ useBookStore

\* The status argument left out of a setBooksBulk call.
NoStatus == "undefined"

Merge(f, g) ==
    [a \in (DOMAIN f) \cup (DOMAIN g) |-> IF a \in DOMAIN g THEN g[a] ELSE f[a]]

Without(f, a) == [b \in (DOMAIN f) \ {a} |-> f[b]]

\* A plausible slip: the new map is not started from a copy of the old one.
setStatusBulk_Replace(state, assetIds, status) ==
    [state EXCEPT !.status = [a \in assetIds |-> status]]

setStatusBulk(state, assetIds, status) ==
    [state EXCEPT !.status =
        [a \in (DOMAIN state.status) \cup assetIds |->
            IF a \in assetIds THEN status ELSE state.status[a]]]

\* A plausible slip: the status is stamped on every asset of the store.
setBooksBulk_StampsAll(state, updates, status) ==
    LET nextBooks == Merge(state.books, updates)
    IN  IF status = NoStatus
        THEN [state EXCEPT !.books = nextBooks]
        ELSE [state EXCEPT !.books = nextBooks,
                           !.status = [a \in (DOMAIN state.status) \cup (DOMAIN updates)
                                          |-> status]]

\* A plausible slip: the returned state replaces the old one instead of being
\* merged into it, and the counter starts again.
setBooksBulk_ResetsFrame(state, updates, status) ==
    LET nextBooks == Merge(state.books, updates)
    IN  IF status = NoStatus
        THEN [state EXCEPT !.books = nextBooks, !.frame = 0]
        ELSE [state EXCEPT !.books = nextBooks,
                           !.status = Merge(state.status,
                                            [a \in DOMAIN updates |-> status]),
                           !.frame = 0]

setBooksBulk(state, updates, status) ==
    LET nextBooks == Merge(state.books, updates)
    IN  IF status = NoStatus
        THEN [state EXCEPT !.books = nextBooks]
        ELSE [state EXCEPT !.books = nextBooks,
                           !.status = Merge(state.status,
                                            [a \in DOMAIN updates |-> status])]

\* A plausible slip: the counter is not wrapped.
bumpFrame_NoWrap(state) == [state EXCEPT !.frame = state.frame + 1]

\* A plausible slip: the counter moves by two.
bumpFrame_ByTwo(state) == [state EXCEPT !.frame = (state.frame + 2) % FRAME_MODULUS]

bumpFrame(state) == [state EXCEPT !.frame = (state.frame + 1) % FRAME_MODULUS]

\* clearBook returns the very same state object when neither entry exists.
clearBookIsNoop(state, assetId) ==
    assetId \notin DOMAIN state.books /\ assetId \notin DOMAIN state.status

\* A plausible slip: only the book is deleted, the status entry stays.
clearBook_BooksOnly(state, assetId) ==
    IF clearBookIsNoop(state, assetId)
    THEN state
    ELSE [state EXCEPT !.books = Without(state.books, assetId)]

\* A plausible slip: the new maps are not started from copies of the old ones.
clearBook_DropsOthers(state, assetId) ==
    IF clearBookIsNoop(state, assetId)
    THEN state
    ELSE [state EXCEPT !.books = EmptyMap, !.status = EmptyMap]

clearBook(state, assetId) ==
    IF clearBookIsNoop(state, assetId)
    THEN state
    ELSE [state EXCEPT !.books = Without(state.books, assetId),
                       !.status = Without(state.status, assetId)]

\* zustand's set(): the state is replaced and the listeners are called unless
\* the updater returned the state object it was given.
StoreSet(s, next, op, sameObject) ==
    IF sameObject
    THEN s
    ELSE [s EXCEPT !.store = next, !.notes = Append(@, op)]

DoSetStatusBulk(s, assetIds, status) ==
    StoreSet(s, setStatusBulk(s.store, assetIds, status), "setStatusBulk", FALSE)

DoSetBooksBulk(s, updates, status) ==
    StoreSet(s, setBooksBulk(s.store, updates, status), "setBooksBulk", FALSE)

DoBumpFrame(s) == StoreSet(s, bumpFrame(s.store), "bumpFrame", FALSE)

DoClearBook(s, assetId) ==
    StoreSet(s, clearBook(s.store, assetId), "clearBook",
             clearBookIsNoop(s.store, assetId))

RECURSIVE ClearBooks(_, _)
ClearBooks(s, ids) ==
    IF ids = {} THEN s
    ELSE LET a == CHOOSE x \in ids : TRUE
         IN  ClearBooks(DoClearBook(s, a), ids \ {a})

\* --------------------------------------------------------- parseBookState

\* A decoded JSON value (`unknown` in the source) is a record tagged with its
\* kind: t is what typeof gives, except that null and arrays have tags of their
\* own. A number stands for itself; tick sizes are counted in hundredths.
Undefined == [t |-> "undefined"]
Null == [t |-> "null"]
Bool(b) == [t |-> "boolean", v |-> b]
Num(n) == [t |-> "number", v |-> n]
Str(x) == [t |-> "string", v |-> x]
Arr(items) == [t |-> "array", v |-> items]
Obj(props) == [t |-> "object", v |-> props]

\* v[key]: a property that is not there reads as undefined.
Get(v, key) ==
    IF v.t = "object" /\ key \in DOMAIN v.v THEN v.v[key] ELSE Undefined

\* !v is false
Truthy(v) ==
    CASE v.t \in {"undefined", "null"} -> FALSE
      [] v.t = "boolean" -> v.v
      [] v.t = "number" -> v.v # 0
      [] v.t = "string" -> v.v # ""
      [] OTHER -> TRUE

\* Number(v): a finite number, or NaN. The strings that read as a number are
\* those of this table; an empty array reads as the empty string does, and the
\* other arrays of the model hold records, which read as no number.
NumericStrings == [x \in {"", "7", "45"} |-> CASE x = "" -> 0 [] x = "7" -> 7 [] OTHER -> 45]

NaN == [finite |-> FALSE, n |-> 0]

Finite(n) == [finite |-> TRUE, n |-> n]

ToNumber(v) ==
    CASE v.t = "number" -> Finite(v.v)
      [] v.t = "null" -> Finite(0)
      [] v.t = "boolean" -> Finite(IF v.v THEN 1 ELSE 0)
      [] v.t = "string" /\ v.v \in DOMAIN NumericStrings -> Finite(NumericStrings[v.v])
      [] v.t = "array" /\ v.v = <<>> -> Finite(0)
      [] OTHER -> NaN

\* String(v || "").toUpperCase() of a scalar; the strings with lower-case
\* letters are those of this table.
UpperCase == [x \in {"buy", "Sell", "hold"} |->
                 CASE x = "buy" -> "BUY" [] x = "Sell" -> "SELL" [] OTHER -> "HOLD"]

SideText(v) ==
    CASE ~Truthy(v) -> ""
      [] v.t = "string" /\ v.v \in DOMAIN UpperCase -> UpperCase[v.v]
      [] v.t = "string" -> v.v
      [] v.t = "boolean" -> "TRUE"
      [] OTHER -> "?"

isRecord(v) == v.t \in {"object", "array"}

\* A plausible slip: only the price of a level is checked.
isOrderLevel_PriceOnly(v) == isRecord(v) /\ Get(v, "price").t = "number"

isOrderLevel(v) ==
    IF ~isRecord(v) THEN FALSE
    ELSE /\ Get(v, "price").t = "number"
         /\ Get(v, "size").t = "number"
         /\ Get(v, "cum").t = "number"

\* tick_size when the wire has none that is a number: 0.01.
TICK_SIZE_DEFAULT == 1

\* A plausible slip: the side of the trade is normalised and not checked.
parseLastTrade_SideUnchecked(rawLast) ==
    IF ~isRecord(rawLast) THEN <<>>
    ELSE LET price == ToNumber(Get(rawLast, "price"))
             size == ToNumber(Get(rawLast, "size"))
             timestamp == ToNumber(Get(rawLast, "timestamp"))
             side == SideText(Get(rawLast, "side"))
         IN  IF price.finite /\ size.finite /\ timestamp.finite
             THEN <<[price |-> price.n, size |-> size.n,
                     timestamp |-> timestamp.n, side |-> side]>>
             ELSE <<>>

\* The lastTrade of the result: the empty sequence for undefined.
parseLastTrade(rawLast) ==
    IF ~isRecord(rawLast) THEN <<>>
    ELSE LET price == ToNumber(Get(rawLast, "price"))
             size == ToNumber(Get(rawLast, "size"))
             timestamp == ToNumber(Get(rawLast, "timestamp"))
             side == SideText(Get(rawLast, "side"))
         IN  IF /\ price.finite
                /\ size.finite
                /\ timestamp.finite
                /\ side \in {"BUY", "SELL"}
             THEN <<[price |-> price.n, size |-> size.n,
                     timestamp |-> timestamp.n, side |-> side]>>
             ELSE <<>>

\* The result is a sequence: empty for null, else the one BookState.
parseBookState(payload) ==
    IF ~isRecord(payload) THEN <<>>
    ELSE IF Get(payload, "status").t = "string" /\ Get(payload, "status").v = "loading"
    THEN <<>>
    ELSE LET ready == Get(payload, "ready")
             msg_count == Get(payload, "msg_count")
             bids == Get(payload, "bids")
             asks == Get(payload, "asks")
             tick_size == Get(payload, "tick_size")
         IN  IF ready.t # "boolean" \/ msg_count.t # "number" THEN <<>>
             ELSE IF bids.t # "array" \/ asks.t # "array" THEN <<>>
             ELSE <<[ready |-> ready.v,
                     msg_count |-> msg_count.v,
                     bids |-> SelectSeq(bids.v, isOrderLevel),
                     asks |-> SelectSeq(asks.v, isOrderLevel),
                     tick_size |-> IF tick_size.t = "number"
                                   THEN tick_size.v ELSE TICK_SIZE_DEFAULT,
                     last_trade |-> parseLastTrade(Get(payload, "last_trade"))]>>

\* An order level as the peer sends it.
Level(price, size, cum) ==
    Obj([price |-> Num(price), size |-> Num(size), cum |-> Num(cum)])

\* Updates as the peer sends them. A snapshot passes every check of the
\* validator; the others: "scalar" is not an object, "loading" has status
\* "loading", "mistyped" has a ready that is no boolean, "book" is a snapshot
\* numbered 0 (used with the empty asset id).
BookUpdate(a, v) ==
    Obj([asset_id |-> Str(a), ready |-> Bool(TRUE), msg_count |-> Num(v),
         bids |-> Arr(<<Level(49, 10, 10)>>), asks |-> Arr(<<Level(51, 10, 10)>>)])

\* A snapshot that passes parseBookState with its bids in ascending price
\* order and a cum that falls along them.
UnsortedUpdate(a, v) ==
    Obj([asset_id |-> Str(a), ready |-> Bool(TRUE), msg_count |-> Num(v),
         bids |-> Arr(<<Level(48, 5, 15), Level(49, 10, 10)>>),
         asks |-> Arr(<<Level(51, 10, 10)>>)])

BadUpdate(a, shape) ==
    CASE shape = "scalar" -> Num(0)
      [] shape = "loading" -> Obj([asset_id |-> Str(a), status |-> Str("loading")])
      [] shape = "mistyped" ->
            Obj([asset_id |-> Str(a), ready |-> Str("yes"), msg_count |-> Num(0),
                 bids |-> Arr(<<>>), asks |-> Arr(<<>>)])
      [] OTHER -> BookUpdate(a, 0)

\* ------------------------------------------------------------ bookWs.worker

\* A frame as the socket delivers it: `text` tells how far the worker gets with
\* it ("binary": not a string; "noise": trimmed text empty or not starting with
\* { or [, and no JSON either, like "ping"; "number": the text of a JSON number,
\* which does not start with { or [ but would parse; "badjson": starts with {
\* or [ and JSON.parse throws; "json": parses), `updates` the decoded list the
\* worker iterates over (payload.updates, or the payload itself).
Frame(text, updates) == [text |-> text, updates |-> updates]

\* A plausible slip: the first character of the text is not tested.
FastReject_Never(text) == FALSE

\* !trimmed || (trimmed[0] !== "{" && trimmed[0] !== "[")
FastReject(text) == text \in {"noise", "number"}

\* JSON.parse(trimmed) throws.
Throws(text) == text \in {"noise", "badjson"}

FreshWorker == [pending |-> EmptyMap, flushTimer |-> FALSE]

\* A plausible slip: an asset's entry is kept once set, so the first update wins.
putPending_FirstWins(pending, assetId, parsed) ==
    IF assetId \in DOMAIN pending
    THEN pending
    ELSE Merge(pending, [a \in {assetId} |-> parsed])

\* pending[assetId] = parsed
putPending(pending, assetId, parsed) ==
    Merge(pending, [a \in {assetId} |-> parsed])

\* updates.forEach(...): the last valid update of an asset overwrites the others.
RECURSIVE storeUpdates(_, _)
storeUpdates(pending, updates) ==
    IF updates = <<>> THEN pending
    ELSE LET update == Head(updates)
             assetId == Get(update, "asset_id")
             parsed == parseBookState(update)
             next == IF ~isRecord(update) THEN pending
                     ELSE IF ~Truthy(assetId) THEN pending
                     ELSE IF parsed # <<>>
                          THEN putPending(pending, assetId.v, parsed[1])
                          ELSE pending
         IN  storeUpdates(next, Tail(updates))

\* A plausible slip: no check of the handle, a timer per parsed frame.
scheduleFlush_NoGuard(s) ==
    [s EXCEPT !.wk.flushTimer = TRUE,
              !.timers.flush = @ + 1,
              !.hist.timerOnEmpty = (DOMAIN s.wk.pending = {})]

scheduleFlush(s) ==
    IF s.wk.flushTimer
    THEN s
    ELSE [s EXCEPT !.wk.flushTimer = TRUE,
                   !.timers.flush = @ + 1,
                   !.hist.timerOnEmpty = (DOMAIN s.wk.pending = {})]

\* A plausible slip: the handler starts afresh when the frame cannot be parsed.
workerOnMessage_DropsOnError(s, frame) ==
    IF FastReject(frame.text) THEN s
    ELSE IF Throws(frame.text) THEN [s EXCEPT !.wk.pending = EmptyMap]
    ELSE scheduleFlush([s EXCEPT !.wk.pending = storeUpdates(@, frame.updates)])

workerOnMessage(s, frame) ==
    IF FastReject(frame.text) THEN s
    ELSE IF Throws(frame.text) THEN s
    ELSE scheduleFlush([s EXCEPT !.wk.pending = storeUpdates(@, frame.updates)])

\* A plausible slip: the batch is posted and the buffer is kept.
flushCallback_KeepsBuffer(s) ==
    LET s1 == [s EXCEPT !.wk.flushTimer = FALSE]
    IN  IF DOMAIN s.wk.pending = {}
        THEN s1
        ELSE [s1 EXCEPT !.toMain = Append(@, s.wk.pending)]

\* A plausible slip: the batch is posted whether or not it has keys.
flushCallback_NoKeysCheck(s) ==
    [s EXCEPT !.wk.flushTimer = FALSE,
              !.wk.pending = EmptyMap,
              !.toMain = Append(@, s.wk.pending)]

\* The flush timer's callback.
flushCallback(s) ==
    LET updates == s.wk.pending
        s1 == [s EXCEPT !.wk.flushTimer = FALSE, !.wk.pending = EmptyMap]
    IN  IF DOMAIN updates = {}
        THEN s1
        ELSE [s1 EXCEPT !.toMain = Append(@, updates)]

\* An update that the worker buffers: it has an asset id and is a BookState.
IsSnapshot(u) ==
    isRecord(u) /\ Truthy(Get(u, "asset_id")) /\ parseBookState(u) # <<>>

\* History: the valid snapshots the worker took in since its last flush, kept
\* apart from the buffer: the latest per asset, and every msg_count that a
\* later snapshot of the same window replaced.
RECURSIVE NoteUpdates(_, _)
NoteUpdates(h, updates) ==
    IF updates = <<>> THEN h
    ELSE LET u == Head(updates)
             id == Get(u, "asset_id").v
             h1 == IF ~IsSnapshot(u) THEN h
                   ELSE [h EXCEPT
                           !.overwritten =
                               IF id \in DOMAIN h.lastRecv
                               THEN @ \cup {h.lastRecv[id]}
                               ELSE @,
                           !.lastRecv =
                               Merge(@, [a \in {id} |-> Get(u, "msg_count").v])]
         IN  NoteUpdates(h1, Tail(updates))

NoteFrame(h, frame) ==
    IF frame.text = "json" THEN NoteUpdates(h, frame.updates) ELSE h

\* ------------------------------------------------ useServerBooksSocket

\* ws.send on the open socket; the peer keeps the set of subscribed assets.
\* History: a subscribe named an asset the connection was subscribed to.
Send(s, type, assets) ==
    [s EXCEPT !.sent = Append(@, [type |-> type, assets |-> assets]),
              !.server.subs = IF type = "subscribe"
                              THEN @ \cup assets
                              ELSE @ \ assets,
              !.hist.twice = @ \/ (type = "subscribe"
                                      /\ assets \cap s.server.subs # {})]

\* A plausible slip: the exponential delay without its cap.
Backoff_NoCap(attempts) == RECONNECT_BASE_MS * 2 ^ attempts

Backoff(attempts) == Min(RECONNECT_MAX_MS, RECONNECT_BASE_MS * 2 ^ attempts)

\* A plausible slip: the empty asset id is not filtered out.
NextMap_KeepsEmptyId(ids) == ids

\* nextMap: the widgets' asset ids, without the empty one.
NextMap(ids) == ids \ {EmptyId}

\* A plausible slip: every desired asset is announced again on each diff.
ToAdd_All(nextMap, prevMap) == nextMap

\* toAdd: the entries of nextMap that prevMap does not have.
ToAdd(nextMap, prevMap) == nextMap \ prevMap

\* toRemove: the keys of prevMap that nextMap does not have.
ToRemove(nextMap, prevMap) == prevMap \ nextMap

\* A plausible slip: the handle is tested, its readyState is not.
IsOpen_AnyHandle(ws) == ws # "null"

\* ws && ws.readyState === WebSocket.OPEN
IsOpen(ws) == ws = "OPEN"

\* The diff effect, run with the asset ids of the new widget list.
DiffEffect(s, ids) ==
    LET nextMap == NextMap(ids)
        prevMap == s.refs.assetsRef
        toAdd == ToAdd(nextMap, prevMap)
        toRemove == ToRemove(nextMap, prevMap)
        open == IsOpen(s.refs.serverWs)
        s1 == [s EXCEPT !.refs.assetsRef = nextMap]
        s2 == IF toAdd # {}
              THEN DoSetStatusBulk([s1 EXCEPT !.refs.pendingSubscribe = toAdd],
                                   toAdd, "connecting")
              ELSE s1
        s3 == IF toRemove # {}
              THEN ClearBooks(IF open THEN Send(s2, "unsubscribe", toRemove) ELSE s2,
                              toRemove)
              ELSE s2
    IN  IF open /\ toAdd # {}
        THEN [Send(s3, "subscribe", toAdd) EXCEPT !.refs.pendingSubscribe = {}]
        ELSE s3

\* worker.terminate(): the worker's globals, its timer and both message queues go.
terminate(s) ==
    [s EXCEPT !.wk = FreshWorker,
              !.toWorker = <<>>,
              !.toMain = <<>>,
              !.timers.flush = 0,
              !.hist.lastRecv = EmptyMap,
              !.hist.timerOnEmpty = FALSE]

\* A plausible slip: the socket is closed with its handlers still attached.
detachHandlers_Skipped(s) ==
    IF s.refs.serverWs = "CLOSED" THEN s ELSE [s EXCEPT !.server.torn = "attached"]

\* ws.onopen = ws.onclose = ws.onerror = ws.onmessage = null. A socket that has
\* not fired its close event yet still has events to deliver after close().
detachHandlers(s) ==
    IF s.refs.serverWs = "CLOSED" THEN s ELSE [s EXCEPT !.server.torn = "detached"]

\* Handlers set to null, ws.close(), serverWsRef.current = null.
detachAndClose(s) ==
    IF s.refs.serverWs = "null"
    THEN s
    ELSE [detachHandlers(s) EXCEPT !.refs.serverWs = "null",
                   !.server.subs = {},
                   !.server.conns =
                       IF s.refs.serverWs \in {"CONNECTING", "OPEN"} THEN @ - 1 ELSE @]

\* A plausible slip: the handle is forgotten, the timer is not cancelled.
clearReconnectTimer_HandleOnly(s) == [s EXCEPT !.refs.reconnectTimer = FALSE]

clearReconnectTimer(s) ==
    IF s.refs.reconnectTimer
    THEN [s EXCEPT !.refs.reconnectTimer = FALSE, !.timers.reconnect = @ - 1]
    ELSE s

\* A plausible slip: the handle is forgotten, the timer is not cancelled.
clearApplyTimer_HandleOnly(s) == [s EXCEPT !.refs.applyTimer = FALSE]

clearApplyTimer(s) ==
    IF s.refs.applyTimer
    THEN [s EXCEPT !.refs.applyTimer = FALSE, !.timers.apply = @ - 1]
    ELSE s

connect(s) ==
    IF ~s.refs.active
    THEN s
    ELSE [s EXCEPT !.refs.serverWs = "CONNECTING",
                   !.server.subs = {},
                   !.server.conns = @ + 1,
                   !.created = @ + 1]

\* A plausible slip: a pending timer is not looked for.
scheduleReconnect_NoGuard(s, jitter) ==
    IF ~s.refs.active THEN s
    ELSE LET backoff == Backoff(s.refs.reconnectAttempts)
         IN  [s EXCEPT !.refs.reconnectAttempts = @ + 1,
                       !.refs.reconnectTimer = TRUE,
                       !.timers.reconnect = @ + 1,
                       !.delay = backoff + jitter,
                       !.hist.schedN = s.refs.reconnectAttempts,
                       !.hist.prevBase = s.hist.base,
                       !.hist.base = backoff,
                       !.hist.firstAfterOpen = s.hist.openSince,
                       !.hist.openSince = FALSE,
                       !.hist.failed = @ + 1,
                       !.hist.resumed = s.hist.tornAt,
                       !.hist.tornAt = -1]

scheduleReconnect(s, jitter) ==
    IF ~s.refs.active THEN s
    ELSE IF s.refs.reconnectTimer THEN s
    ELSE LET backoff == Backoff(s.refs.reconnectAttempts)
         IN  [s EXCEPT !.refs.reconnectAttempts = @ + 1,
                       !.refs.reconnectTimer = TRUE,
                       !.timers.reconnect = @ + 1,
                       !.delay = backoff + jitter,
                       !.hist.schedN = s.refs.reconnectAttempts,
                       !.hist.prevBase = s.hist.base,
                       !.hist.base = backoff,
                       !.hist.firstAfterOpen = s.hist.openSince,
                       !.hist.openSince = FALSE,
                       !.hist.failed = @ + 1,
                       !.hist.resumed = s.hist.tornAt,
                       !.hist.tornAt = -1]

\* A plausible slip: the teardown also forgets the failed attempts.
cleanupConnected_ResetsAttempts(s) ==
    LET s1 == [s EXCEPT !.refs.active = FALSE,
                        !.refs.reconnectAttempts = 0,
                        !.hist.tornAt = s.hist.failed]
        s2 == clearApplyTimer(clearReconnectTimer(s1))
        s3 == [terminate(s2) EXCEPT !.refs.worker = FALSE]
    IN  detachAndClose(s3)

\* The connection effect's cleanup when it had connected.
cleanupConnected(s) ==
    LET s1 == [s EXCEPT !.refs.active = FALSE, !.hist.tornAt = s.hist.failed]
        s2 == clearApplyTimer(clearReconnectTimer(s1))
        s3 == [terminate(s2) EXCEPT !.refs.worker = FALSE]
    IN  detachAndClose(s3)

\* The connection effect's cleanup when there was nothing to connect for.
cleanupIdle(s) == [s EXCEPT !.refs.active = FALSE]

\* The connection effect's body when the widget list is empty.
effectIdle(s) ==
    LET s1 == detachAndClose([s EXCEPT !.refs.active = TRUE])
        s2 == IF s1.refs.worker
              THEN [terminate(s1) EXCEPT !.refs.worker = FALSE]
              ELSE s1
        s3 == [s2 EXCEPT !.refs.pendingUpdates = EmptyMap,
                         !.hist.merged = 0,
                         !.hist.delivered = EmptyMap]
    IN  clearReconnectTimer(clearApplyTimer(s3))

\* The connection effect's body when there are widgets: new worker, connect().
effectConnected(s) ==
    connect([s EXCEPT !.refs.active = TRUE, !.refs.worker = TRUE, !.wk = FreshWorker])

\* A plausible slip: only the assets queued since the last send are subscribed.
onOpen_PendingOnly(s) ==
    LET s1 == [s EXCEPT !.refs.serverWs = "OPEN",
                        !.refs.reconnectAttempts = 0,
                        !.hist.openSince = TRUE,
                        !.hist.base = 0,
                        !.hist.prevBase = 0,
                        !.hist.failed = 0,
                        !.hist.tornAt = -1,
                        !.hist.resumed = -1]
        assets == s.refs.pendingSubscribe
    IN  IF assets # {}
        THEN [Send(s1, "subscribe", assets) EXCEPT !.refs.pendingSubscribe = {}]
        ELSE s1

\* A plausible slip: the queued assets are sent besides the whole set.
onOpen_AlsoPending(s) ==
    LET s1 == [s EXCEPT !.refs.serverWs = "OPEN",
                        !.refs.reconnectAttempts = 0,
                        !.hist.openSince = TRUE,
                        !.hist.base = 0,
                        !.hist.prevBase = 0,
                        !.hist.failed = 0,
                        !.hist.tornAt = -1,
                        !.hist.resumed = -1]
        assets == s.refs.assetsRef
        s2 == IF assets # {} THEN Send(s1, "subscribe", assets) ELSE s1
        s3 == IF s.refs.pendingSubscribe # {}
              THEN Send(s2, "subscribe", s.refs.pendingSubscribe)
              ELSE s2
    IN  [s3 EXCEPT !.refs.pendingSubscribe = {}]

\* ws.onopen
onOpen(s) ==
    LET s1 == [s EXCEPT !.refs.serverWs = "OPEN",
                        !.refs.reconnectAttempts = 0,
                        !.hist.openSince = TRUE,
                        !.hist.base = 0,
                        !.hist.prevBase = 0,
                        !.hist.failed = 0,
                        !.hist.tornAt = -1,
                        !.hist.resumed = -1]
        assets == s.refs.assetsRef
    IN  IF assets # {}
        THEN [Send(s1, "subscribe", assets) EXCEPT !.refs.pendingSubscribe = {}]
        ELSE s1

\* ws.onmessage
onWsMessage(s, frame) ==
    IF ~s.refs.active \/ frame.text = "binary" THEN s
    ELSE IF ~s.refs.worker THEN s
    ELSE [s EXCEPT !.toWorker = Append(@, frame)]

\* A plausible slip: the close handler schedules the reconnect and leaves the
\* statuses as they are.
onClose_NoStatus(s, jitter) ==
    scheduleReconnect(
        [s EXCEPT !.refs.serverWs = "CLOSED",
                  !.server.conns =
                      IF s.refs.serverWs \in {"CONNECTING", "OPEN"} THEN @ - 1 ELSE @],
        jitter)

\* ws.onclose
onClose(s, jitter) ==
    LET s1 == [s EXCEPT !.refs.serverWs = "CLOSED",
                        !.server.conns =
                            IF s.refs.serverWs \in {"CONNECTING", "OPEN"}
                            THEN @ - 1 ELSE @]
    IN  scheduleReconnect(DoSetStatusBulk(s1, s1.refs.assetsRef, "connecting"), jitter)

\* A plausible slip: the error handler schedules a reconnect of its own, as the
\* close handler does.
onError_Reconnects(s) ==
    LET s1 == [s EXCEPT !.refs.serverWs = "FAILED", !.server.conns = @ - 1]
    IN  scheduleReconnect(DoSetStatusBulk(s1, s1.refs.assetsRef, "error"), 0)

\* ws.onerror; the socket's readyState is no longer OPEN when it runs.
onError(s) ==
    LET s1 == [s EXCEPT !.refs.serverWs = "FAILED", !.server.conns = @ - 1]
    IN  DoSetStatusBulk(s1, s1.refs.assetsRef, "error")

\* A plausible slip: the callback clears the handle and forgets to connect.
reconnectCallback_NoConnect(s) == [s EXCEPT !.refs.reconnectTimer = FALSE]

\* An event of a socket that was closed by a teardown. Its handler properties
\* are null; were they still the closures of the effect that created the
\* socket, they would run with that effect's `active` false.
tornHandler(s, kind) ==
    IF s.server.torn # "attached" THEN s
    ELSE CASE kind = "close" -> DoSetStatusBulk(s, s.refs.assetsRef, "connecting")
           [] kind = "error" -> DoSetStatusBulk(s, s.refs.assetsRef, "error")
           [] OTHER -> s

\* The reconnect timer's callback.
reconnectCallback(s) == connect([s EXCEPT !.refs.reconnectTimer = FALSE])

\* A plausible slip: a batch replaces the updates waiting to be applied.
onBatch_Replace(s, updates) ==
    IF DOMAIN updates = {} THEN s
    ELSE LET s1 == [s EXCEPT !.refs.pendingUpdates = updates]
         IN  IF s1.refs.applyTimer
             THEN s1
             ELSE [s1 EXCEPT !.refs.applyTimer = TRUE, !.timers.apply = @ + 1]

\* worker.onmessage on the page: a batch from the worker.
onBatch(s, updates) ==
    IF DOMAIN updates = {} THEN s
    ELSE LET s1 == [s EXCEPT !.refs.pendingUpdates = Merge(@, updates)]
         IN  IF s1.refs.applyTimer
             THEN s1
             ELSE [s1 EXCEPT !.refs.applyTimer = TRUE, !.timers.apply = @ + 1]

\* A plausible slip: one store update per asset of the batch.
RECURSIVE applyBooks_PerAsset(_, _)
applyBooks_PerAsset(s, pending) ==
    IF DOMAIN pending = {} THEN s
    ELSE LET a == CHOOSE x \in DOMAIN pending : TRUE
         IN  applyBooks_PerAsset(
                 DoSetBooksBulk(s, [b \in {a} |-> pending[a]], "live"),
                 Without(pending, a))

\* setBooksBulk(pending, "live")
applyBooks(s, pending) == DoSetBooksBulk(s, pending, "live")

\* The batch-apply timer's callback.
applyCallback(s) ==
    LET pending == s.refs.pendingUpdates
        s1 == [s EXCEPT !.refs.applyTimer = FALSE, !.refs.pendingUpdates = EmptyMap]
    IN  IF DOMAIN pending = {}
        THEN s1
        ELSE DoBumpFrame(applyBooks(s1, pending))

\* ------------------------------------------------------------------ tasks

World ==
    [refs |-> refs, store |-> store, wk |-> wk, toWorker |-> toWorker,
     toMain |-> toMain, timers |-> timers, server |-> server, hist |-> hist,
     sent |-> <<>>, notes |-> <<>>, delay |-> 0, created |-> 0]

LastBase ==
    [op |-> "init", sent |-> <<>>, notes |-> <<>>, toAdd |-> {}, toRemove |-> {},
     hadEntry |-> {}, hadBook |-> {}, timerBefore |-> FALSE,
     calledSchedule |-> FALSE, wsBefore |-> "null", applied |-> {}, merged |-> 0,
     frameBefore |-> 0, expected |-> EmptyMap, emitted |-> FALSE,
     absorbed |-> {}, attemptsBefore |-> 0, delay |-> 0, created |-> 0,
     code |-> 0, pendingBefore |-> {}, text |-> "", snapshots |-> 0,
     bufferBefore |-> EmptyMap]

Commit(s, l) ==
    /\ refs' = s.refs
    /\ store' = s.store
    /\ wk' = s.wk
    /\ toWorker' = s.toWorker
    /\ toMain' = s.toMain
    /\ timers' = s.timers
    /\ server' = s.server
    /\ hist' = s.hist
    /\ last' = [l EXCEPT !.sent = s.sent, !.notes = s.notes, !.delay = s.delay,
                          !.created = s.created]
    /\ UNCHANGED probe

\* No call of the validator on its own.
NoProbe == [payload |-> Undefined, result |-> <<>>, done |-> FALSE]

\* The hook as mounted with no widgets; the store and the worker as created.
Mounted ==
    /\ widgets = {}
    /\ refs = [serverWs |-> "null", reconnectTimer |-> FALSE, reconnectAttempts |-> 0,
               assetsRef |-> {}, pendingSubscribe |-> {}, worker |-> FALSE,
               pendingUpdates |-> EmptyMap, applyTimer |-> FALSE, active |-> TRUE]
    /\ store = [books |-> EmptyMap, status |-> EmptyMap, frame |-> 0]
    /\ wk = FreshWorker
    /\ toWorker = <<>>
    /\ toMain = <<>>
    /\ timers = [flush |-> 0, apply |-> 0, reconnect |-> 0]
    /\ server = [subs |-> {}, conns |-> 0, nextVer |-> 1, torn |-> "none"]
    /\ hist = [overwritten |-> {}, lastRecv |-> EmptyMap, timerOnEmpty |-> FALSE,
               merged |-> 0, applied |-> 0, delivered |-> EmptyMap, schedN |-> 0, base |-> 0,
               prevBase |-> 0, openSince |-> FALSE, firstAfterOpen |-> FALSE,
               failed |-> 0, tornAt |-> -1, resumed |-> -1,
               twice |-> FALSE]
    /\ last = LastBase

Init == Mounted /\ probe = NoProbe

\* A render with a new widget list, and the effects it triggers, in React's
\* order: the cleanup of the connection effect when shouldConnect changed, the
\* diff effect, the connection effect's body when shouldConnect changed.
RenderEffects(s, ids) ==
    LET changed == (widgets # {}) # (ids # {})
        s1 == IF ~changed THEN s
              ELSE IF widgets # {} THEN cleanupConnected(s) ELSE cleanupIdle(s)
        s2 == DiffEffect(s1, ids)
    IN  IF ~changed THEN s2
        ELSE IF ids # {} THEN effectConnected(s2) ELSE effectIdle(s2)

\* What is outstanding before a task: timers, the socket, the worker, updates
\* waiting to be applied.
Outstanding ==
    {k \in {"reconnect", "apply", "flush", "socket", "worker", "updates"} :
        CASE k = "reconnect" -> refs.reconnectTimer
          [] k = "apply" -> refs.applyTimer
          [] k = "flush" -> wk.flushTimer
          [] k = "socket" -> refs.serverWs # "null"
          [] k = "worker" -> refs.worker
          [] OTHER -> DOMAIN refs.pendingUpdates # {}}

Render(ids) ==
    LET removed == refs.assetsRef \ ids
    IN  /\ widgets' = ids
        /\ Commit(RenderEffects(World, ids),
                  [LastBase EXCEPT
                     !.op = "render",
                     !.toAdd = (ids \ {EmptyId}) \ refs.assetsRef,
                     !.toRemove = removed,
                     !.hadEntry = removed \cap
                         ((DOMAIN store.books) \cup (DOMAIN store.status)),
                     !.hadBook = removed \cap DOMAIN store.books,
                     !.wsBefore = refs.serverWs,
                     !.attemptsBefore = refs.reconnectAttempts,
                     !.pendingBefore = IF ids = {} THEN Outstanding ELSE {}])

WsOpen ==
    /\ refs.serverWs = "CONNECTING"
    /\ UNCHANGED widgets
    /\ Commit(onOpen(World),
              [LastBase EXCEPT !.op = "open",
                               !.absorbed = refs.pendingSubscribe,
                               !.attemptsBefore = refs.reconnectAttempts])

\* The frames the peer can send. Snapshots are about assets subscribed on the
\* connection and are numbered as they are sent, up to `cap`.
JunkFrames ==
    {Frame("binary", <<>>), Frame("noise", <<>>), Frame("badjson", <<>>)}

\* Text that is JSON and starts with neither { nor [: the number 7.
ScalarFrames == {Frame("number", <<Num(7)>>)}

InvalidFrames ==
    {Frame("json", <<>>),
     Frame("json", <<BadUpdate(EmptyId, "scalar")>>),
     Frame("json", <<BadUpdate(EmptyId, "book")>>)}
    \cup {Frame("json", <<BadUpdate(a, sh)>>) :
            a \in server.subs, sh \in {"loading", "mistyped"}}

\* One invalid frame of each shape.
InvalidSamples ==
    {Frame("json", <<>>),
     Frame("json", <<BadUpdate(EmptyId, "scalar")>>),
     Frame("json", <<BadUpdate(EmptyId, "book")>>),
     Frame("json", <<BadUpdate("A", "loading")>>),
     Frame("json", <<BadUpdate("B", "mistyped")>>)}

OneFrames(cap) ==
    IF server.nextVer <= cap
    THEN {Frame("json", <<BookUpdate(a, server.nextVer)>>) : a \in server.subs}
    ELSE {}

UnsortedFrames(cap) ==
    IF server.nextVer <= cap
    THEN {Frame("json", <<UnsortedUpdate(a, server.nextVer)>>) :
            a \in server.subs \cap {"A"}}
    ELSE {}

TwoFrames(cap) ==
    IF server.nextVer + 1 <= cap
    THEN {Frame("json", <<BookUpdate(a, server.nextVer),
                          BookUpdate(b, server.nextVer + 1)>>) :
            a \in server.subs, b \in server.subs}
    ELSE {}

Snapshots(frame) ==
    Cardinality({i \in 1..Len(frame.updates) : IsSnapshot(frame.updates[i])})

WsMessage(frame) ==
    /\ refs.serverWs = "OPEN"
    /\ Len(toWorker) < MaxChan
    /\ UNCHANGED widgets
    /\ Commit(onWsMessage([World EXCEPT !.server.nextVer = @ + Snapshots(frame)],
                          frame),
              [LastBase EXCEPT !.op = "message"])

WsError ==
    /\ refs.serverWs \in {"CONNECTING", "OPEN"}
    /\ UNCHANGED widgets
    /\ Commit(onError(World), [LastBase EXCEPT !.op = "error"])

\* The close event carries a code; the handler takes no argument.
WsClose(code, jitter, cap) ==
    /\ refs.serverWs \in {"CONNECTING", "OPEN", "FAILED"}
    /\ refs.reconnectAttempts < cap
    /\ UNCHANGED widgets
    /\ Commit(onClose(World, jitter),
              [LastBase EXCEPT !.op = "close",
                               !.code = code,
                               !.wsBefore = refs.serverWs,
                               !.attemptsBefore = refs.reconnectAttempts])

\* The events a closed socket can still deliver; close is the last one.
TornEvents == {"error", "message", "close"}

TornEvent(kind) ==
    /\ server.torn # "none"
    /\ UNCHANGED widgets
    /\ LET s == tornHandler(World, kind)
       IN  Commit([s EXCEPT !.server.torn = IF kind = "close" THEN "none" ELSE @],
                  [LastBase EXCEPT !.op = "torn"])

ReconnectFire ==
    /\ timers.reconnect > 0
    /\ UNCHANGED widgets
    /\ Commit(reconnectCallback([World EXCEPT !.timers.reconnect = @ - 1]),
              [LastBase EXCEPT !.op = "reconnect", !.wsBefore = refs.serverWs])

WorkerReceive ==
    /\ refs.worker
    /\ toWorker # <<>>
    /\ UNCHANGED widgets
    /\ LET frame == Head(toWorker)
           s == workerOnMessage([World EXCEPT !.toWorker = Tail(@)], frame)
       IN  Commit([s EXCEPT !.hist = NoteFrame(@, frame)],
                  [LastBase EXCEPT !.op = "worker",
                                   !.timerBefore = wk.flushTimer,
                                   !.calledSchedule = frame.text = "json",
                                   !.text = frame.text,
                                   !.snapshots = Snapshots(frame),
                                   !.bufferBefore =
                                       IF Snapshots(frame) = 0
                                       THEN wk.pending ELSE EmptyMap])

FlushFire ==
    /\ timers.flush > 0
    /\ Len(toMain) < MaxChan
    /\ UNCHANGED widgets
    /\ LET s == flushCallback([World EXCEPT !.timers.flush = @ - 1])
       IN  Commit([s EXCEPT !.hist.lastRecv = EmptyMap,
                            !.hist.timerOnEmpty = FALSE],
                  [LastBase EXCEPT !.op = "flush",
                                   !.bufferBefore = wk.pending,
                                   !.expected = hist.lastRecv,
                                   !.emitted = Len(s.toMain) > Len(toMain)])

BatchReceive ==
    /\ toMain # <<>>
    /\ UNCHANGED widgets
    /\ LET updates == Head(toMain)
           s == onBatch([World EXCEPT !.toMain = Tail(@)], updates)
       IN  Commit([s EXCEPT !.hist.merged = @ + 1,
                            !.hist.delivered =
                                [a \in (DOMAIN @) \cup (DOMAIN updates) |->
                                    IF a \in DOMAIN updates
                                    THEN updates[a].msg_count ELSE @[a]]],
                  [LastBase EXCEPT !.op = "batch"])

ApplyFire ==
    /\ timers.apply > 0
    /\ UNCHANGED widgets
    /\ LET s == applyCallback([World EXCEPT !.timers.apply = @ - 1])
       IN  Commit([s EXCEPT !.hist.merged = 0,
                            !.hist.applied = @ + hist.merged,
                            !.hist.delivered = EmptyMap],
                  [LastBase EXCEPT !.op = "apply",
                                   !.applied = DOMAIN refs.pendingUpdates,
                                   !.merged = hist.merged,
                                   !.frameBefore = store.frame,
                                   !.expected = hist.delivered])

\* The whole pipeline: renders that change the list of (well-formed) asset
\* ids, the socket opening and closing, snapshot frames, the worker, the timers.
Next ==
    \/ \E ids \in SUBSET Assets : ids # widgets /\ Render(ids)
    \/ WsOpen
    \/ \E frame \in OneFrames(MaxLive) : WsMessage(frame)
    \/ \E jitter \in {0} : WsClose(1006, jitter, MaxFailures)
    \/ ReconnectFire
    \/ WorkerReceive
    \/ FlushFire
    \/ BatchReceive
    \/ ApplyFire

Spec == Init /\ [][Next]_vars

\* The subscription manager and the transport without inbound frames: renders
\* over every widget list, socket errors, long runs of failed connections.
NextTransport ==
    \/ \E ids \in SUBSET WidgetIds : Render(ids)
    \/ WsOpen
    \/ WsError
    \/ \E code \in CloseCodes, jitter \in JitterSamples :
           WsClose(code, jitter, MaxAttempts)
    \/ ReconnectFire
    \/ \E kind \in TornEvents : TornEvent(kind)

SpecTransport == Init /\ [][NextTransport]_vars

\* The same, with the browser's guarantee that a timer that stays pending fires.
SpecTransportLive == SpecTransport /\ WF_vars(ReconnectFire)

\* The ingestion path on one open connection: the state Spec reaches from Init
\* by Render({"A", "B"}) and WsOpen, then frames of every kind, the worker, the
\* flush timer, the batch message and the batch-apply timer.
WorkerStart(frame) ==
    /\ widgets = Assets
    /\ refs = [serverWs |-> "OPEN", reconnectTimer |-> FALSE, reconnectAttempts |-> 0,
               assetsRef |-> Assets, pendingSubscribe |-> {}, worker |-> TRUE,
               pendingUpdates |-> EmptyMap, applyTimer |-> FALSE, active |-> TRUE]
    /\ store = [books |-> EmptyMap, status |-> [a \in Assets |-> "connecting"],
                frame |-> frame]
    /\ wk = FreshWorker
    /\ toWorker = <<>>
    /\ toMain = <<>>
    /\ timers = [flush |-> 0, apply |-> 0, reconnect |-> 0]
    /\ server = [subs |-> Assets, conns |-> 1, nextVer |-> 1, torn |-> "none"]
    /\ hist = [overwritten |-> {}, lastRecv |-> EmptyMap, timerOnEmpty |-> FALSE,
               merged |-> 0, applied |-> 0, delivered |-> EmptyMap, schedN |-> 0, base |-> 0,
               prevBase |-> 0, openSince |-> TRUE, firstAfterOpen |-> FALSE,
               failed |-> 0, tornAt |-> -1, resumed |-> -1,
               twice |-> FALSE]
    /\ last = [LastBase EXCEPT !.op = "open", !.absorbed = Assets,
                               !.sent = <<[type |-> "subscribe", assets |-> Assets]>>]
    /\ probe = NoProbe

InitWorker == WorkerStart(0)

NextWorker ==
    \/ \E frame \in JunkFrames \cup InvalidSamples
                    \cup OneFrames(MaxVer) \cup TwoFrames(MaxVer) : WsMessage(frame)
    \/ WorkerReceive
    \/ FlushFire
    \/ BatchReceive
    \/ ApplyFire

SpecWorker == InitWorker /\ [][NextWorker]_vars

\* The ingestion path under every kind of unusable frame, between frames that
\* carry one snapshot each.
NextIngest ==
    \/ \E frame \in JunkFrames \cup ScalarFrames \cup InvalidFrames
                    \cup OneFrames(MaxLive) : WsMessage(frame)
    \/ WorkerReceive
    \/ FlushFire
    \/ BatchReceive
    \/ ApplyFire

SpecIngest == InitWorker /\ [][NextIngest]_vars

\* Delivery: frames with one snapshot each and text that is no JSON, with what
\* the browser guarantees: a message posted to the worker or to the page is
\* delivered, and a timer that stays pending fires. The peer may stop sending
\* at any time.
NextDelivery ==
    \/ \E frame \in {Frame("noise", <<>>)} \cup OneFrames(MaxLive) : WsMessage(frame)
    \/ WorkerReceive
    \/ FlushFire
    \/ BatchReceive
    \/ ApplyFire

SpecDelivery ==
    /\ InitWorker
    /\ [][NextDelivery]_vars
    /\ WF_vars(WorkerReceive)
    /\ WF_vars(FlushFire)
    /\ WF_vars(BatchReceive)
    /\ WF_vars(ApplyFire)

\* The same path late in a session: the store outlives the hook's mounts, and
\* its frame counter has been bumped by every batch applied since the page
\* loaded. The counter starts one and two bumps before FRAME_MODULUS. The
\* frames carry one snapshot each, with level arrays in order or out of it.
LateFrames == {FRAME_MODULUS - 2, FRAME_MODULUS - 1}

InitLate == \E frame \in LateFrames : WorkerStart(frame)

NextLate ==
    \/ \E frame \in OneFrames(MaxLive) \cup UnsortedFrames(MaxLive) : WsMessage(frame)
    \/ WorkerReceive
    \/ FlushFire
    \/ BatchReceive
    \/ ApplyFire

SpecLate == InitLate /\ [][NextLate]_vars

\* InitWorker is a state of Spec (checked: TLC reaches it under Spec).
AtWorkerStart == InitWorker

\* The validator on its own: parseBookState applied once to a decoded value.
\* The values: what is no object, an array, and objects whose fields are each
\* absent, of a wrong type, or good; bids arrays of up to MaxLevels elements.
LevelValues ==
    {Level(50, 10, 10),
     Level(49, 5, 15),
     Obj([price |-> Num(48), size |-> Num(5)]),
     Obj([price |-> Str("47"), size |-> Num(5), cum |-> Num(20)]),
     Num(46)}

RECURSIVE SeqsUpTo(_, _)
SeqsUpTo(S, n) ==
    IF n = 0 THEN {<<>>}
    ELSE LET shorter == SeqsUpTo(S, n - 1)
         IN  shorter \cup {Append(q, x) : q \in shorter, x \in S}

StatusValues == {Undefined, Str("loading"), Str("live")}
ReadyValues == {Bool(TRUE), Undefined, Str("true")}
MsgCountValues == {Num(1), Str("1")}
BidsValues == {Undefined} \cup {Arr(q) : q \in SeqsUpTo(LevelValues, MaxLevels)}
AsksValues == {Null, Arr(<<>>), Arr(<<Level(51, 10, 10), Null, Level(52, 5, 15)>>)}
TickSizeValues == {Undefined, Str("0.01"), Num(1), Num(5), Num(0), Num(-1)}
LastTradeValues ==
    {Undefined,
     Obj([price |-> Num(50), size |-> Str("7"), side |-> Str("buy"),
          timestamp |-> Num(1)])}

NonObjects == {Undefined, Null, Num(7), Str("ping"), Bool(TRUE), Arr(<<>>)}

\* last_trade values of every shape: no record, and records whose price, size,
\* timestamp and side are each absent, of a type that converts, or of one that
\* does not.
TradePriceValues == {Num(50), Str("7"), Str("x"), Null, Undefined}
TradeSizeValues == {Num(7), Bool(TRUE), Undefined}
TradeTimestampValues == {Num(1), Str(""), Arr(<<>>), Obj([ms |-> Num(1)])}
TradeSideValues ==
    {Str("BUY"), Str("buy"), Str("Sell"), Str("hold"), Str(""), Undefined,
     Num(1), Bool(TRUE)}
TradeValues ==
    {Null, Str("x"), Num(3), Arr(<<>>)}
    \cup {Obj([price |-> price, size |-> size, timestamp |-> timestamp,
               side |-> side]) :
             price \in TradePriceValues, size \in TradeSizeValues,
             timestamp \in TradeTimestampValues, side \in TradeSideValues}

InitValidator ==
    /\ Mounted
    /\ \/ \E v \in NonObjects : probe = [NoProbe EXCEPT !.payload = v]
       \/ \E status \in StatusValues, ready \in ReadyValues,
             msg_count \in MsgCountValues, bids \in BidsValues,
             asks \in AsksValues, tick_size \in TickSizeValues,
             last_trade \in LastTradeValues :
              probe = [NoProbe EXCEPT !.payload =
                          Obj([status |-> status, ready |-> ready,
                               msg_count |-> msg_count, bids |-> bids,
                               asks |-> asks, tick_size |-> tick_size,
                               last_trade |-> last_trade])]
       \/ \E ready \in ReadyValues, tick_size \in {Undefined, Num(5)},
             last_trade \in TradeValues :
              probe = [NoProbe EXCEPT !.payload =
                          Obj([ready |-> ready, msg_count |-> Num(1),
                               bids |-> Arr(<<Level(50, 10, 10), Num(46)>>),
                               asks |-> Arr(<<Level(51, 10, 10)>>),
                               tick_size |-> tick_size,
                               last_trade |-> last_trade])]

Validate ==
    /\ ~probe.done
    /\ probe' = [probe EXCEPT !.result = parseBookState(probe.payload),
                              !.done = TRUE]
    /\ UNCHANGED <<widgets, refs, store, wk, toWorker, toMain, timers, server,
                   hist, last>>

NextValidator == Validate

SpecValidator == InitValidator /\ [][NextValidator]_vars

\* ----------------------------------------------------------------- claims

Desired == widgets \ {EmptyId}

SubscribeAll == <<[type |-> "subscribe", assets |-> Desired]>>

\* C1 (SpecTransport): once the diff of a render has run, assetsRef holds
\* exactly the non-empty asset ids of the rendered widget list, whatever the
\* transport's state was during the diffs.
C1_Convergence == refs.assetsRef = Desired

\* A diff that both adds and removes assets, on a list with an empty id, while
\* the socket is closed and a reconnect is pending.
C1_Witness ==
    /\ last.op = "render"
    /\ last.toAdd # {}
    /\ last.toRemove # {}
    /\ EmptyId \in widgets
    /\ last.wsBefore = "CLOSED"
    /\ refs.reconnectTimer

\* C2 (Spec): at the end of the step whose diff removed asset X, the store has
\* neither books[X] nor status[X], whatever the transport's state.
C2_CleanRemoval ==
    last.op = "render" =>
        \A x \in last.toRemove :
            x \notin DOMAIN store.books /\ x \notin DOMAIN store.status

\* An asset with a book in the store is removed while the socket is closed and
\* other assets stay.
C2_Witness ==
    /\ last.op = "render"
    /\ last.hadBook # {}
    /\ last.wsBefore = "CLOSED"
    /\ widgets # {}

\* C3 (Spec): the store holds books and status entries only for assets of the
\* desired set.
C3_NoOrphans ==
    (DOMAIN store.books) \cup (DOMAIN store.status) \subseteq Desired

\* C4 (SpecWorker): of the snapshots of one asset that the worker takes in
\* within one flush window only the last reaches the store: the emitted batch
\* carries the last one, the apply step writes what the latest delivered batch
\* carried, and no replaced snapshot is ever a book of the store.
C4_Coalescing ==
    /\ \A a \in DOMAIN store.books : store.books[a].msg_count \notin hist.overwritten
    /\ (last.op = "flush" /\ last.emitted) =>
           [a \in DOMAIN toMain[Len(toMain)] |-> toMain[Len(toMain)][a].msg_count]
               = last.expected
    /\ last.op = "apply" =>
           \A a \in last.applied : store.books[a].msg_count = last.expected[a]

\* Three snapshots of A in one window; the third is applied.
C4_Witness ==
    /\ last.op = "apply"
    /\ hist.overwritten = {1, 2}
    /\ "A" \in last.applied
    /\ store.books["A"].msg_count = 3

\* C5 as stated (SpecWorker): applying a batch produces exactly one store
\* notification.
C5_OneNotification == last.op = "apply" => Len(last.notes) = 1

\* C5 amended (SpecWorker): applying a batch produces one notification from
\* setBooksBulk for all its assets and one from bumpFrame, two in all, however
\* many assets the batch has.
C5_TwoNotifications ==
    (last.op = "apply" /\ last.applied # {}) =>
        last.notes = <<"setBooksBulk", "bumpFrame">>

\* A batch with both assets is applied.
C5_Witness == last.op = "apply" /\ last.applied = Assets

C7_IdleEfficiency == wk.flushTimer => ~hist.timerOnEmpty

\* C8 (SpecWorker): at most one flush timer is outstanding, the handle is set
\* exactly while it is, and it is cleared when the timer has fired.
C8_OneFlushTimer ==
    /\ timers.flush <= 1
    /\ wk.flushTimer <=> timers.flush = 1
    /\ last.op = "flush" => ~wk.flushTimer

\* scheduleFlush ran while a timer was pending.
C8_Witness ==
    /\ last.op = "worker"
    /\ last.calledSchedule
    /\ last.timerBefore
    /\ timers.flush = 1

ExpectedDelay(n) ==
    CASE n = 0 -> 500
      [] n = 1 -> 1000
      [] n = 2 -> 2000
      [] n = 3 -> 4000
      [] OTHER -> 5000

\* C9 (SpecTransport): the reconnect scheduled with attempt counter n has base
\* delay min(5000, 500 * 2^n) and leaves the counter at n + 1; between two
\* successful opens the base delay never decreases and never exceeds 5000; an
\* open resets the counter, so the first reconnect after it waits 500 ms.
C9_Backoff ==
    /\ refs.reconnectTimer =>
           /\ hist.base = ExpectedDelay(hist.schedN)
           /\ refs.reconnectAttempts = hist.schedN + 1
           /\ last.op = "close" => last.delay - hist.base \in 0..199
    /\ hist.prevBase <= hist.base
    /\ hist.base <= 5000
    /\ last.op = "open" => refs.reconnectAttempts = 0
    /\ (refs.reconnectTimer /\ hist.firstAfterOpen) => hist.base = 500

\* The fifth failure in a row: the delay is capped, after 4000.
C9_Witness ==
    /\ refs.reconnectTimer
    /\ hist.schedN = 4
    /\ hist.prevBase = 4000
    /\ hist.base = 5000

\* C10 as stated (SpecTransport): the open handler sends exactly one subscribe
\* message, with the whole desired set.
C10_OneSubscribe == last.op = "open" => last.sent = SubscribeAll

\* C10 amended (SpecTransport): the open handler sends exactly one subscribe
\* message with the whole desired set when that set is not empty, and nothing
\* when it is empty (widgets with an empty asset id only).
C10_Resync ==
    last.op = "open" =>
        last.sent = IF Desired = {} THEN <<>> ELSE SubscribeAll

\* A reconnect opens after B was added while the socket was down; A was
\* subscribed before.
C10_Witness ==
    /\ last.op = "open"
    /\ last.attemptsBefore > 0
    /\ last.absorbed = {"B"}
    /\ Desired = {"A", "B"}

Subscribe(assets) == [type |-> "subscribe", assets |-> assets]

Unsubscribe(assets) == [type |-> "unsubscribe", assets |-> assets]

\* C11 (SpecTransport): after a close event with the normal-closure code 1000
\* no reconnect timer is pending.
C11_NormalCloseStops ==
    (last.op = "close" /\ last.code = 1000) =>
        ~refs.reconnectTimer /\ timers.reconnect = 0

\* C12 (SpecTransportLive): right after the close handler ran for an abnormal
\* close a reconnect timer is pending; when the timer fires the socket is
\* Connecting; and after such a close the socket is eventually Connecting
\* again unless the widget list is emptied (teardown).
C12_AbnormalCloseReconnects ==
    /\ []((last.op = "close" /\ last.code = 1006) =>
              refs.reconnectTimer /\ timers.reconnect = 1)
    /\ [](last.op = "reconnect" => refs.serverWs = "CONNECTING")
    /\ (last.op = "close" /\ last.code = 1006)
           ~> (refs.serverWs = "CONNECTING" \/ widgets = {})

\* An open connection is lost without a close frame; the timer is pending.
C12_Witness ==
    /\ last.op = "close"
    /\ last.code = 1006
    /\ last.wsBefore = "OPEN"
    /\ refs.reconnectTimer
    /\ timers.reconnect = 1

\* C13 (SpecTransport): while the widget list is empty (from the teardown on)
\* no reconnect timer is outstanding, there is no socket, and no task creates a
\* connection.
C13_TeardownCancels ==
    widgets = {} =>
        /\ ~refs.reconnectTimer
        /\ timers.reconnect = 0
        /\ refs.serverWs = "null"
        /\ server.conns = 0
        /\ last.created = 0

\* Scenario C: the widget list is emptied while a reconnect timer is pending.
C13_Witness ==
    /\ last.op = "render"
    /\ widgets = {}
    /\ "reconnect" \in last.pendingBefore

\* C14 (Spec): while the widget list is empty (the teardown has run) no flush,
\* batch-apply or reconnect timer is outstanding, there is no socket handle and
\* no worker, no message of a worker is in flight, and the pending-updates
\* buffer is empty.
C14_TeardownComplete ==
    widgets = {} =>
        /\ timers = [flush |-> 0, apply |-> 0, reconnect |-> 0]
        /\ ~refs.applyTimer
        /\ ~refs.reconnectTimer
        /\ refs.serverWs = "null"
        /\ server.conns = 0
        /\ ~refs.worker
        /\ ~wk.flushTimer
        /\ toWorker = <<>>
        /\ toMain = <<>>
        /\ DOMAIN refs.pendingUpdates = {}

\* A teardown with the batch-apply timer pending on a non-empty buffer, an
\* open socket and a worker.
C14_Witness ==
    /\ last.op = "render"
    /\ widgets = {}
    /\ {"apply", "updates", "socket", "worker"} \subseteq last.pendingBefore

\* C15 (SpecTransport): at most one connection is Connecting or Open; a task
\* creates at most one connection, and only a render that starts from no
\* connection or the reconnect timer firing on a closed connection creates one.
C15_SingleConnection ==
    /\ server.conns <= 1
    /\ last.created <= 1
    /\ last.created = 1 =>
           \/ last.op = "render" /\ last.wsBefore = "null"
           \/ last.op = "reconnect" /\ last.wsBefore = "CLOSED"

\* The reconnect timer fires and creates the one connection.
C15_Witness ==
    /\ last.op = "reconnect"
    /\ last.created = 1
    /\ server.conns = 1
    /\ refs.serverWs = "CONNECTING"

\* C16 (SpecTransport): a diff whose desired set equals the one of the
\* previous diff sends nothing and makes no store call, in every state of the
\* socket.
C16_DiffIdempotent ==
    (last.op = "render" /\ last.toAdd = {} /\ last.toRemove = {}) =>
        last.sent = <<>> /\ last.notes = <<>>

\* The same two assets are rendered again while the socket is open.
C16_Witness ==
    /\ last.op = "render"
    /\ last.toAdd = {}
    /\ last.toRemove = {}
    /\ last.wsBefore = "OPEN"
    /\ refs.serverWs = "OPEN"
    /\ Desired = Assets

\* C17 (SpecTransport): a diff that runs on an open socket sends unsubscribe
\* with exactly the removed ids when there are any, then subscribe with exactly
\* the added assets when there are any, and nothing else; a diff that runs on
\* a socket that is not open sends nothing. (A render that empties the widget
\* list has closed the socket before its diff runs.)
C17_IncrementalIntents ==
    last.op = "render" =>
        last.sent =
            IF last.wsBefore = "OPEN" /\ widgets # {}
            THEN (IF last.toRemove # {} THEN <<Unsubscribe(last.toRemove)>> ELSE <<>>)
                 \o (IF last.toAdd # {} THEN <<Subscribe(last.toAdd)>> ELSE <<>>)
            ELSE <<>>

\* One asset replaces another on an open socket.
C17_Witness ==
    /\ last.op = "render"
    /\ last.wsBefore = "OPEN"
    /\ last.toAdd = {"B"}
    /\ last.toRemove = {"A"}
    /\ last.sent = <<Unsubscribe({"A"}), Subscribe({"B"})>>

\* C18 (SpecValidator): every BookState the validator returns has a tick size
\* above zero.
C18_PositiveTick ==
    (probe.done /\ probe.result # <<>>) => probe.result[1].tick_size > 0

\* The elements of a level array that have a numeric price, size and cum, in
\* the array's order.
RECURSIVE Conforming(_)
Conforming(levels) ==
    IF levels = <<>> THEN <<>>
    ELSE LET x == Head(levels)
             numeric == {k \in {"price", "size", "cum"} :
                            x.t = "object" /\ k \in DOMAIN x.v /\ x.v[k].t = "number"}
         IN  (IF numeric = {"price", "size", "cum"} THEN <<x>> ELSE <<>>)
             \o Conforming(Tail(levels))

\* The cases in which the validator is to return null.
Rejected(v) ==
    \/ v.t \notin {"object", "array"}
    \/ Get(v, "status") = Str("loading")
    \/ Get(v, "ready").t # "boolean"
    \/ Get(v, "msg_count").t # "number"
    \/ Get(v, "bids").t # "array"
    \/ Get(v, "asks").t # "array"

\* C19 (SpecValidator): the validator returns null exactly for a value that is
\* no object, has status "loading", a ready that is no boolean, a msg_count
\* that is no number, or bids or asks that is no array; otherwise it returns a
\* BookState with the wire's ready and msg_count, with the bids and asks of the
\* wire in order less the elements lacking a numeric price, size or cum, and
\* with the wire's tick_size when that is a number and 0.01 otherwise.
C19_ValidatorContract ==
    probe.done =>
        LET v == probe.payload
        IN  IF Rejected(v)
            THEN probe.result = <<>>
            ELSE /\ Len(probe.result) = 1
                 /\ probe.result[1].ready = Get(v, "ready").v
                 /\ probe.result[1].msg_count = Get(v, "msg_count").v
                 /\ probe.result[1].bids = Conforming(Get(v, "bids").v)
                 /\ probe.result[1].asks = Conforming(Get(v, "asks").v)
                 /\ probe.result[1].tick_size =
                        IF Get(v, "tick_size").t = "number"
                        THEN Get(v, "tick_size").v
                        ELSE 1

\* A BookState is returned for a payload whose bids have a level without cum
\* between two good ones and whose tick_size is a string.
C19_Witness ==
    /\ probe.done
    /\ Len(probe.result) = 1
    /\ Get(probe.payload, "bids") =
           Arr(<<Level(50, 10, 10), Obj([price |-> Num(48), size |-> Num(5)])>>)
    /\ probe.result[1].bids = <<Level(50, 10, 10)>>
    /\ Len(probe.result[1].asks) = 2
    /\ Get(probe.payload, "tick_size") = Str("0.01")
    /\ probe.result[1].tick_size = 1

\* C20 (Spec): while the socket is closed and no connection has been opened
\* since, no asset of the desired set has status live.
C20_NoLiveWhileDown ==
    refs.serverWs = "CLOSED" =>
        \A a \in refs.assetsRef \cap DOMAIN store.status : store.status[a] # "live"

\* C21 (SpecTransport): an event of a socket closed by a teardown changes
\* nothing: whichever event it delivers, no store call is made, nothing is
\* sent, no frame is posted to a worker, no timer is set and no ref changes.
C21_TornSilent ==
    /\ server.torn # "none" =>
           \A kind \in TornEvents : tornHandler(World, kind) = World
    /\ last.op = "torn" => last.notes = <<>> /\ last.sent = <<>> /\ last.created = 0

\* The close event of a socket torn down while open arrives after the
\* subsystem was started again with an asset.
C21_Witness ==
    /\ last.op = "torn"
    /\ server.torn = "none"
    /\ refs.assetsRef # {}
    /\ refs.serverWs = "OPEN"

\* The store of world s has status `status` for every desired asset and is
\* otherwise the store as it is now.
OnlyDesiredStatus(s, status) ==
    /\ DOMAIN s.store.status = (DOMAIN store.status) \cup refs.assetsRef
    /\ \A a \in refs.assetsRef : s.store.status[a] = status
    /\ \A a \in (DOMAIN store.status) \ refs.assetsRef :
           s.store.status[a] = store.status[a]
    /\ s.store.books = store.books
    /\ s.store.frame = store.frame

\* C22 (Spec): wherever a close event can arrive, the close handler leaves
\* every desired asset with status connecting, and wherever an error event can
\* arrive the error handler leaves every desired asset with status error; both
\* leave the other statuses and all books as they were. Right after a close
\* event every desired asset has status connecting.
C22_DisruptionStatus ==
    /\ refs.serverWs \in {"CONNECTING", "OPEN", "FAILED"} =>
           OnlyDesiredStatus(onClose(World, 0), "connecting")
    /\ refs.serverWs \in {"CONNECTING", "OPEN"} =>
           OnlyDesiredStatus(onError(World), "error")
    /\ last.op = "close" =>
           \A a \in refs.assetsRef : store.status[a] = "connecting"
    /\ last.op = "error" =>
           \A a \in refs.assetsRef : store.status[a] = "error"

\* A close event arrives while the store holds a live book of the desired
\* asset and a live entry of an asset that is no longer desired.
C22_Witness ==
    /\ last.op = "close"
    /\ refs.assetsRef = {"B"}
    /\ "B" \in DOMAIN store.books
    /\ "A" \in DOMAIN store.status
    /\ store.status["A"] = "live"
    /\ store.status["B"] = "connecting"

\* C23 (SpecTransport): right after an error event a reconnect timer is pending
\* or a connection attempt is under way.
C23_ErrorReconnects ==
    last.op = "error" => refs.reconnectTimer \/ refs.serverWs = "CONNECTING"

\* C24 (Spec): whatever the socket's state, the diff run with any widget list
\* leaves every added asset with status connecting and leaves the status and
\* the book of every asset that is neither added nor removed as they were.
C24_AddedConnecting ==
    /\ \A ids \in SUBSET Assets :
           LET s == DiffEffect(World, ids)
               added == ids \ refs.assetsRef
               removed == refs.assetsRef \ ids
           IN  /\ \A a \in added :
                      a \in DOMAIN s.store.status /\ s.store.status[a] = "connecting"
               /\ \A a \in Assets \ (added \cup removed) :
                      /\ a \in DOMAIN s.store.status <=> a \in DOMAIN store.status
                      /\ a \in DOMAIN store.status =>
                             s.store.status[a] = store.status[a]
                      /\ a \in DOMAIN s.store.books <=> a \in DOMAIN store.books
                      /\ a \in DOMAIN store.books => s.store.books[a] = store.books[a]
    /\ last.op = "render" =>
           \A a \in last.toAdd :
               a \in DOMAIN store.status /\ store.status[a] = "connecting"

\* B is added while the socket is closed and A, which stays, has a live book.
C24_Witness ==
    /\ last.op = "render"
    /\ last.toAdd = {"B"}
    /\ last.toRemove = {}
    /\ last.wsBefore = "CLOSED"
    /\ "A" \in DOMAIN store.books
    /\ store.status["A"] = "live"
    /\ store.status["B"] = "connecting"

\* The msg_count of every buffered snapshot.
BufferedCounts == [a \in DOMAIN wk.pending |-> wk.pending[a].msg_count]

\* C25 (SpecIngest): a frame that cannot be parsed, or none of whose updates
\* is a valid snapshot, leaves the pending buffer as it was; the worker goes on
\* after it: the buffer always holds the latest valid snapshot of each asset
\* taken in since the last flush, whatever frames came between, and a flush
\* timer is pending whenever the buffer is not empty.
C25_InvalidFrameHarmless ==
    /\ \A frame \in {f \in JunkFrames : f.text # "binary"}
                      \cup ScalarFrames \cup InvalidFrames :
           workerOnMessage(World, frame).wk.pending = wk.pending
    /\ (last.op = "worker" /\ last.snapshots = 0) => wk.pending = last.bufferBefore
    /\ BufferedCounts = hist.lastRecv
    /\ DOMAIN wk.pending # {} => wk.flushTimer /\ timers.flush = 1

\* Unparseable text arrived while a snapshot was buffered; the snapshot is
\* still buffered and its flush still pending.
C25_Witness ==
    /\ last.op = "worker"
    /\ last.text = "badjson"
    /\ DOMAIN last.bufferBefore # {}
    /\ wk.pending = last.bufferBefore
    /\ wk.flushTimer

\* C26 (SpecIngest): a frame whose trimmed text is empty or starts with
\* neither { nor [ leaves the worker as it was: the same pending buffer, the
\* same timer handle, no timer created and none cancelled, nothing emitted.
C26_FastReject ==
    /\ \A frame \in {f \in JunkFrames : f.text = "noise"} \cup ScalarFrames :
           workerOnMessage(World, frame) = World
    /\ (last.op = "worker" /\ last.text \in {"noise", "number"}) =>
           /\ wk.pending = last.bufferBefore
           /\ wk.flushTimer = last.timerBefore
           /\ wk.flushTimer <=> timers.flush = 1

\* The text of a JSON number arrived at an idle worker, which stays idle.
C26_Witness ==
    /\ last.op = "worker"
    /\ last.text = "number"
    /\ ~last.timerBefore
    /\ ~wk.flushTimer
    /\ timers.flush = 0
    /\ wk.pending = EmptyMap

\* C27 (SpecIngest): the flush timer firing on a non-empty buffer posts the
\* whole buffer as one batch, and leaves the buffer empty and the handle
\* cleared; a frame handled later leaves the posted batch alone, and the first
\* valid update after a flush starts a timer of its own.
C27_FlushEmitsBuffer ==
    /\ (timers.flush > 0 /\ DOMAIN wk.pending # {}) =>
           LET s == flushCallback([World EXCEPT !.timers.flush = @ - 1])
           IN  /\ s.toMain = Append(toMain, wk.pending)
               /\ s.wk.pending = EmptyMap
               /\ ~s.wk.flushTimer
    /\ (last.op = "flush" /\ DOMAIN last.bufferBefore # {}) =>
           /\ last.emitted
           /\ toMain[Len(toMain)] = last.bufferBefore
           /\ wk.pending = EmptyMap
           /\ ~wk.flushTimer
           /\ timers.flush = 0
    /\ (refs.worker /\ toWorker # <<>>) =>
           workerOnMessage(World, Head(toWorker)).toMain = toMain
    /\ (last.op = "worker" /\ last.snapshots > 0 /\ ~last.timerBefore) =>
           /\ wk.flushTimer
           /\ DOMAIN wk.pending = DOMAIN hist.lastRecv

\* A snapshot of A was flushed and is still on its way to the page; the next
\* snapshot of A opened a new window with a timer of its own.
C27_Witness ==
    /\ last.op = "worker"
    /\ last.snapshots = 1
    /\ ~last.timerBefore
    /\ wk.flushTimer
    /\ toMain # <<>>
    /\ "A" \in DOMAIN toMain[1]
    /\ "A" \in DOMAIN wk.pending
    /\ wk.pending["A"].msg_count > toMain[1]["A"].msg_count

\* Number(v) is a finite number: numbers, null (0), booleans (0 or 1), the
\* empty array (0) and strings that read as a number.
ConvertsFinite(v) ==
    \/ v.t \in {"number", "null", "boolean"}
    \/ v = Arr(<<>>)
    \/ v.t = "string" /\ v.v \in {"", "7", "45"}

\* BUY or SELL in any case.
IsBuyOrSell(v) == v.t = "string" /\ v.v \in {"BUY", "SELL", "buy", "Sell"}

InvalidLastTrade(lt) ==
    \/ \E k \in {"price", "size", "timestamp"} : ~ConvertsFinite(Get(lt, k))
    \/ ~IsBuyOrSell(Get(lt, "side"))

\* The payload without its last_trade.
WithoutLastTrade(v) ==
    Obj([k \in DOMAIN v.v \ {"last_trade"} |-> v.v[k]])

\* C28 (SpecValidator): a last_trade one of whose price, size and timestamp
\* does not convert to a finite number, or whose side is not BUY or SELL in any
\* case, does not change the outcome: the result is that for the payload
\* without its last_trade, a BookState with last_trade absent whenever the
\* rest of the payload is acceptable; a last_trade that passes is returned
\* converted.
C28_LastTradeDropped ==
    (probe.done /\ probe.payload.t = "object"
                /\ Get(probe.payload, "last_trade") # Undefined) =>
        LET lt == Get(probe.payload, "last_trade")
            rest == parseBookState(WithoutLastTrade(probe.payload))
        IN  /\ Rejected(probe.payload) <=> probe.result = <<>>
            /\ (InvalidLastTrade(lt) /\ ~Rejected(probe.payload)) =>
                   /\ probe.result = rest
                   /\ probe.result[1].last_trade = <<>>
            /\ (~InvalidLastTrade(lt) /\ ~Rejected(probe.payload)) =>
                   /\ Len(probe.result[1].last_trade) = 1
                   /\ probe.result[1].last_trade[1].side \in {"BUY", "SELL"}
                   /\ [probe.result[1] EXCEPT !.last_trade = <<>>] = rest[1]

\* A trade with a good price, size and timestamp and the side "hold": the
\* BookState comes back with its levels filtered, the wire's tick_size and no
\* last_trade.
C28_Witness ==
    /\ probe.done
    /\ Get(Get(probe.payload, "last_trade"), "side") = Str("hold")
    /\ Get(Get(probe.payload, "last_trade"), "price") = Num(50)
    /\ Get(Get(probe.payload, "last_trade"), "size") = Num(7)
    /\ Get(Get(probe.payload, "last_trade"), "timestamp") = Num(1)
    /\ Len(probe.result) = 1
    /\ probe.result[1].last_trade = <<>>
    /\ probe.result[1].bids = <<Level(50, 10, 10)>>
    /\ probe.result[1].tick_size = 5

\* m and n agree on every key but a.
SameButFor(m, n, a) ==
    /\ (DOMAIN m) \ {a} = (DOMAIN n) \ {a}
    /\ \A b \in (DOMAIN m) \ {a} : m[b] = n[b]

\* C29 (Spec): clearBook(a) on the store of any reachable state leaves neither
\* books[a] nor status[a], leaves the entries of every other asset and the
\* frame counter as they were, returns the state it was given (and notifies
\* nobody) when a has neither entry, and applied a second time changes nothing;
\* after a render's removals, clearing a removed asset again is such a no-op.
C29_ClearBook ==
    /\ \A a \in Assets :
           LET once == clearBook(store, a)
               twice == clearBook(once, a)
           IN  /\ a \notin DOMAIN once.books
               /\ a \notin DOMAIN once.status
               /\ SameButFor(once.books, store.books, a)
               /\ SameButFor(once.status, store.status, a)
               /\ once.frame = store.frame
               /\ (a \notin DOMAIN store.books /\ a \notin DOMAIN store.status) =>
                      /\ once = store
                      /\ DoClearBook(World, a) = World
               /\ twice = once
    /\ last.op = "render" =>
           \A x \in last.toRemove : DoClearBook(World, x) = World

\* A, which had a book, was removed after a frame tick; B keeps its book and
\* its status.
C29_Witness ==
    /\ last.op = "render"
    /\ last.toRemove = {"A"}
    /\ last.hadBook = {"A"}
    /\ "A" \notin DOMAIN store.books
    /\ "A" \notin DOMAIN store.status
    /\ "B" \in DOMAIN store.books
    /\ "B" \in DOMAIN store.status
    /\ store.frame > 0

\* m is n with the entries of updates written over it.
Overwritten(m, n, updates) ==
    /\ DOMAIN m = (DOMAIN n) \cup (DOMAIN updates)
    /\ \A a \in DOMAIN updates : m[a] = updates[a]
    /\ \A a \in (DOMAIN n) \ (DOMAIN updates) : m[a] = n[a]

\* C30 (SpecIngest): setBooksBulk(updates, status), for the merged updates of
\* any reachable state and a status that is given or left out, replaces the
\* state once, by one whose books are the old ones with updates written over
\* them, whose statuses are the old ones with the status written over the
\* assets of updates and no other (the old ones when no status is given) and
\* whose frame counter is the old one; the apply step leaves every applied
\* asset with its book and the status live through one such call.
C30_SetBooksBulk ==
    /\ \A status \in {"live", "error", NoStatus} :
           LET updates == refs.pendingUpdates
               next == setBooksBulk(store, updates, status)
               s == DoSetBooksBulk(World, updates, status)
           IN  /\ Overwritten(next.books, store.books, updates)
               /\ IF status = NoStatus
                  THEN next.status = store.status
                  ELSE Overwritten(next.status, store.status,
                                   [a \in DOMAIN updates |-> status])
               /\ next.frame = store.frame
               /\ s.store = next
               /\ s.notes = Append(World.notes, "setBooksBulk")
    /\ (last.op = "apply" /\ last.applied # {}) =>
           /\ \A a \in last.applied :
                  a \in DOMAIN store.books /\ store.status[a] = "live"
           /\ Len(SelectSeq(last.notes, LAMBDA n : n = "setBooksBulk")) = 1

\* A batch with a snapshot of A alone was applied: A is live with its book, B
\* is still connecting and has none.
C30_Witness ==
    /\ last.op = "apply"
    /\ last.applied = {"A"}
    /\ store.books["A"].msg_count = 1
    /\ store.status["A"] = "live"
    /\ store.status["B"] = "connecting"
    /\ "B" \notin DOMAIN store.books

\* The frame counter after one more bump.
NextFrame(frame) == IF frame = 999999 THEN 0 ELSE frame + 1

\* C31 (SpecLate): bumpFrame gives the state it was given with frame + 1, and
\* 0 after 999999, in one replacement; the counter stays within 0..999999; the
\* apply step leaves the counter one bump further.
C31_BumpFrame ==
    /\ store.frame \in 0..999999
    /\ bumpFrame(store) = [store EXCEPT !.frame = NextFrame(store.frame)]
    /\ DoBumpFrame(World) = [World EXCEPT !.store.frame = NextFrame(store.frame),
                                          !.notes = Append(@, "bumpFrame")]
    /\ (last.op = "apply" /\ last.applied # {}) =>
           store.frame = NextFrame(last.frameBefore)

\* A batch was applied when the counter stood at 999999: it is 0.
C31_Witness ==
    /\ last.op = "apply"
    /\ last.applied # {}
    /\ last.frameBefore = 999999
    /\ store.frame = 0

\* C32 as stated (SpecLate): applying a batch never leaves the frame counter
\* lower than it was.
C32_NeverDecreases == last.op = "apply" => store.frame >= last.frameBefore

\* C32 amended (SpecLate): every step leaves the frame counter as it was,
\* one higher, or at 0 after 999999: it never decreases but for that wrap.
C32_MonotonicButWrap ==
    [][\/ store.frame' = store.frame
       \/ store.frame' = store.frame + 1
       \/ store.frame = 999999 /\ store.frame' = 0]_vars

\* Batches were applied on both sides of the wrap: the counter went from
\* 999999 to 0 and on to 1.
C32_Witness ==
    /\ last.op = "apply"
    /\ last.frameBefore = 0
    /\ store.frame = 1
    /\ hist.applied = 2

\* The levels of one side are in price order (dir = -1: descending, 1:
\* ascending) with a cum that never falls.
SideOrdered(levels, dir) ==
    \A i \in 1..(Len(levels) - 1) :
        /\ dir * levels[i].v.price.v <= dir * levels[i + 1].v.price.v
        /\ levels[i].v.cum.v <= levels[i + 1].v.cum.v

\* C33 (SpecLate): every book of the store has its bids in descending price
\* order, its asks in ascending price order, and cum non-decreasing along each
\* side.
C33_BooksOrdered ==
    \A a \in DOMAIN store.books :
        /\ SideOrdered(store.books[a].bids, -1)
        /\ SideOrdered(store.books[a].asks, 1)

\* C34 (SpecTransport): while the socket is open (its open handler has run)
\* the assets subscribed on the connection, those named in the subscribe
\* messages sent on it less those named in later unsubscribe messages, are
\* the desired set; and no subscribe message ever names an asset that is
\* subscribed on the connection it is sent on.
C34_ServerView ==
    /\ refs.serverWs = "OPEN" => server.subs = Desired
    /\ ~hist.twice

\* On a connection that opened after a failure, with a widget without asset id
\* in the list, a diff replaced A by B: B alone is subscribed.
C34_Witness ==
    /\ last.op = "render"
    /\ last.wsBefore = "OPEN"
    /\ refs.serverWs = "OPEN"
    /\ last.toRemove = {"A"}
    /\ last.toAdd = {"B"}
    /\ EmptyId \in widgets
    /\ hist.schedN > 0
    /\ server.subs = {"B"}

\* The worker's buffer holds the snapshot numbered v of asset a.
Buffered(a, v) == a \in DOMAIN wk.pending /\ wk.pending[a].msg_count = v

\* The store holds, with the status live, the snapshot numbered v of asset a
\* or a later one.
Written(a, v) ==
    /\ a \in DOMAIN store.books
    /\ store.books[a].msg_count >= v
    /\ store.status[a] = "live"

\* C35 (SpecDelivery): with no teardown and no removal, a snapshot in the
\* worker's buffer is eventually in the store with the status live, or a later
\* snapshot of its asset is; and the updates waiting to be applied after a
\* batch message are the latest that the batches delivered since the last
\* apply carried.
C35_Delivery ==
    /\ \A a \in Assets : \A v \in 1..MaxLive : Buffered(a, v) ~> Written(a, v)
    /\ [](last.op = "batch" =>
             [a \in DOMAIN refs.pendingUpdates |-> refs.pendingUpdates[a].msg_count]
                 = hist.delivered)

\* The second snapshot of A was applied, after the first had been.
C35_Witness ==
    /\ last.op = "apply"
    /\ last.applied = {"A"}
    /\ store.books["A"].msg_count = 2
    /\ store.status["A"] = "live"
    /\ hist.applied = 2

\* C36 (SpecTransport): at most one reconnect timer is outstanding, and the
\* handle is set exactly while it is; scheduleReconnect in a state whose
\* timer is pending changes nothing, neither the timers nor the attempt
\* counter; the handle is clear when the timer has fired and after a teardown.
C36_OneReconnectTimer ==
    /\ timers.reconnect <= 1
    /\ refs.reconnectTimer <=> timers.reconnect = 1
    /\ refs.reconnectTimer =>
           \A jitter \in JitterSamples : scheduleReconnect(World, jitter) = World
    /\ last.op = "reconnect" => ~refs.reconnectTimer
    /\ (last.op = "render" /\ widgets = {}) => ~refs.reconnectTimer

\* The timer of the third failure in a row fired: the handle is clear, no
\* timer is outstanding and the counter stands at 3.
C36_Witness ==
    /\ last.op = "reconnect"
    /\ refs.reconnectAttempts = 3
    /\ ~refs.reconnectTimer
    /\ timers.reconnect = 0
    /\ refs.serverWs = "CONNECTING"

\* The store calls of the latest task that are calls of op.
Calls(op) == SelectSeq(last.notes, LAMBDA n : n = op)

\* C37 (SpecIngest): the flush timer firing on an empty buffer posts nothing,
\* so every batch on its way to the page has an asset; a batch without assets
\* would leave the page as it is (no pending updates, no apply timer); and the
\* frame counter is bumped only by an apply step that wrote a book with
\* setBooksBulk.
C37_EmptyFlushSilent ==
    /\ (timers.flush > 0 /\ DOMAIN wk.pending = {}) =>
           flushCallback([World EXCEPT !.timers.flush = @ - 1]).toMain = toMain
    /\ (last.op = "flush" /\ DOMAIN last.bufferBefore = {}) => ~last.emitted
    /\ \A i \in 1..Len(toMain) : DOMAIN toMain[i] # {}
    /\ onBatch(World, EmptyMap) = World
    /\ refs.applyTimer => DOMAIN refs.pendingUpdates # {}
    /\ Calls("bumpFrame") # <<>> =>
           /\ last.op = "apply"
           /\ last.applied # {}
           /\ Calls("setBooksBulk") # <<>>
           /\ last.applied \subseteq DOMAIN store.books

\* A flush timer that a frame without snapshots had started fired on an empty
\* buffer, after a batch had been applied: nothing is on its way to the page
\* and the frame counter stands where the apply left it.
C37_Witness ==
    /\ last.op = "flush"
    /\ DOMAIN last.bufferBefore = {}
    /\ ~last.emitted
    /\ toMain = <<>>
    /\ ~refs.applyTimer
    /\ hist.applied = 1
    /\ store.frame = 1

\* C38 (SpecTransport): a render, with whatever teardown and start it causes,
\* leaves the reconnect-attempt counter as it was; the counter is the number of
\* reconnects scheduled since the last open (or since the mount); and the first
\* reconnect scheduled after a teardown that followed n failed cycles, with no
\* open in between, was scheduled with counter n and base delay
\* min(5000, 500 * 2^n).
C38_TeardownKeepsAttempts ==
    /\ last.op = "render" => refs.reconnectAttempts = last.attemptsBefore
    /\ refs.reconnectAttempts = hist.failed
    /\ (refs.reconnectTimer /\ hist.resumed >= 0) =>
           /\ hist.schedN = hist.resumed
           /\ hist.base = ExpectedDelay(hist.resumed)
           /\ hist.resumed > 0 => hist.base > 500

\* Two closes in a row, a teardown (the last widget goes), a new start, and a
\* third close: the reconnect waits 2000 ms and more, not 500.
C38_Witness ==
    /\ last.op = "close"
    /\ refs.reconnectTimer
    /\ hist.resumed = 2
    /\ hist.schedN = 2
    /\ hist.base = 2000
    /\ last.delay >= 2000

====
